---- MODULE Spec2Model ----
(***************************************************************************)
(* Authentication and session-token subsystem of the contact book API:     *)
(* routes/auth.py over repository/users.py, the token codec and the        *)
(* password hashing of services/auth.py, and the users table.              *)
(***************************************************************************)
EXTENDS Integers, Sequences, FiniteSets, TLC

(***************************************************************************)
(* Bounds of the model.                                                    *)
(***************************************************************************)
MaxTime == 2
MaxUsers == 2
\* The verification emails waiting to be sent plus the tokens handed out.
MaxIssued == 3
MaxReqs == 2

(***************************************************************************)
(* Inputs.                                                                 *)
(***************************************************************************)
Emails == {"a@x.com", "A@x.com"}
Passwords == {"12345678", "password"}
SignupPasswords == {"12345678"}
Usernames == {"test"}

\* Letter-case folding of an email address.
Lower(e) == IF e = "A@x.com" THEN "a@x.com" ELSE e

None == <<>>
Garbage == <<"garbage">>

(***************************************************************************)
(* Token codec (services/auth.py): a signed payload {sub, scope, iat, exp} *)
(* that is a function of the subject, the kind and the clock.  The         *)
(* handlers pass the subject alone (data={"sub": email}), so two tokens of *)
(* one kind issued to one subject at the same clock reading are the same   *)
(* string.  A token is accepted up to and including its expiry time.       *)
(***************************************************************************)
AccessTTL == 1
RefreshTTL == 1
EmailTTL == 1

CreateToken(sub, scope, ttl, t) == <<sub, scope, t, t + ttl>>
create_access_token(sub, t) == CreateToken(sub, "access_token", AccessTTL, t)
create_refresh_token(sub, t) == CreateToken(sub, "refresh_token", RefreshTTL, t)
create_email_token(sub, t) == CreateToken(sub, "email_token", EmailTTL, t)

\* A decode that does not look at the expiry time.
DecodeTokenNoExpiry(token, kind, t) ==
    IF Len(token) # 4 THEN [ok |-> FALSE, sub |-> "", err |-> "InvalidToken"]
    ELSE IF token[2] # kind THEN [ok |-> FALSE, sub |-> "", err |-> "WrongTokenKind"]
    ELSE [ok |-> TRUE, sub |-> token[1], err |-> ""]

\* decode(token, expected_kind): the subject, or the typed failure.
DecodeToken(token, kind, t) ==
    IF Len(token) # 4 THEN [ok |-> FALSE, sub |-> "", err |-> "InvalidToken"]
    ELSE IF token[4] < t THEN [ok |-> FALSE, sub |-> "", err |-> "InvalidToken"]
    ELSE IF token[2] # kind THEN [ok |-> FALSE, sub |-> "", err |-> "WrongTokenKind"]
    ELSE [ok |-> TRUE, sub |-> token[1], err |-> ""]

decode_refresh_token(token, t) == DecodeToken(token, "refresh_token", t)
get_email_from_token(token, t) == DecodeToken(token, "email_token", t)

\* Password hashing: one-way hash, verified against the stored hash.
get_password_hash(p) == <<"hash", p>>
verify_password(plain, hashed) == get_password_hash(plain) = hashed

(***************************************************************************)
(* State.                                                                  *)
(***************************************************************************)
VARIABLES
    users,      \* the users table: a sequence of rows, the row id is the index
    mailq,      \* background tasks send_email(email, username) not yet run
    issued,     \* every refresh and email token handed out so far
    now,        \* the clock, in token-timestamp units
    resp,       \* the last request handled: its input, its response, and
                \* the users table and the clock it ran against
    revoked,    \* the refresh tokens handed out before a later successful
                \* login of their subject
    reqs,       \* the requests in flight (interleaved handlers)
    limiter,    \* the rate limiter's backing store: per (identity, route) the
                \* count of the open window and the time it has left
    redis_up,   \* whether the backing store answers
    call,       \* the last request to a rate-limited route and its outcome
    contacts,   \* the contacts table
    cres        \* the last contact operation and its result

authVars == <<users, mailq, issued, now, resp, revoked, reqs>>
apiVars == <<limiter, redis_up, call, contacts, cres>>
vars == <<users, mailq, issued, now, resp, revoked, reqs,
          limiter, redis_up, call, contacts, cres>>

Gravatar(email) == <<"gravatar", Lower(email)>>

Resp(op, email, token, status, detail) ==
    [op |-> op, email |-> email, password |-> "", token |-> token,
     status |-> status, detail |-> detail, tokens |-> None, user |-> None,
     tasks |-> <<>>, before |-> <<>>, at |-> 0, replay |-> FALSE]

NoResp == Resp("none", "", None, 0, "")

(***************************************************************************)
(* repository/users.py                                                     *)
(***************************************************************************)
\* A lookup that folds letter case.
MatchingRowsFolded(email, tbl) ==
    {i \in 1..Len(tbl) : Lower(tbl[i].email) = Lower(email)}

\* select(User).filter_by(email=email): the ids of the matching rows.
MatchingRows(email, tbl) == {i \in 1..Len(tbl) : tbl[i].email = email}

\* scalar_one_or_none(): 0 for None, the row id, or -1 for MultipleResultsFound.
get_user_by_email(email, tbl) ==
    LET m == MatchingRows(email, tbl)
    IN  IF m = {} THEN 0
        ELSE IF Cardinality(m) = 1 THEN CHOOSE i \in m : TRUE
        ELSE -1

\* An email column without a unique constraint.
UniqueEmailNoCheck(email, tbl) == TRUE

\* The unique constraint of the email column.
UniqueEmail(email, tbl) == \A i \in 1..Len(tbl) : tbl[i].email # email

NewUser(email, username, hashed, avatar) ==
    [email |-> email, username |-> username, password |-> hashed,
     confirmed |-> FALSE, refresh_token |-> None, avatar |-> avatar]

\* create_user: db.add + commit.
create_user(tbl, row) == Append(tbl, row)

\* update_token: user.refresh_token = token; commit.
update_token(tbl, id, token) == [tbl EXCEPT ![id].refresh_token = token]

\* A confirmation that is not persisted.
repo_confirmed_email_lost(tbl, email) == tbl

\* An update of the confirmed flag that is not restricted to the user.
repo_confirmed_email_all(tbl, email) ==
    [i \in 1..Len(tbl) |-> [tbl[i] EXCEPT !.confirmed = TRUE]]

\* confirmed_email (repository): user.confirmed = True; commit.
repo_confirmed_email(tbl, email) ==
    LET id == get_user_by_email(email, tbl)
    IN  [tbl EXCEPT ![id].confirmed = TRUE]

(***************************************************************************)
(* Tokens a client can present: what was handed out (a login or refresh    *)
(* hands out the access token together with the refresh token), or bytes   *)
(* that do not verify.                                                     *)
(***************************************************************************)
AccessOf(rt) == create_access_token(rt[1], rt[3])
Presentable ==
    issued \cup {AccessOf(rt) : rt \in {x \in issued : x[2] = "refresh_token"}}
           \cup {Garbage}

\* A request slot with no request in it.
Idle == [pc |-> "idle", op |-> "", email |-> "", username |-> "", password |-> "",
         avatar |-> None, token |-> None, id |-> 0, seen |-> None,
         status |-> 0, detail |-> "", rt |-> None, conc |-> FALSE]

(***************************************************************************)
(* The rate-limited routes (routes/contacts.py, routes/users.py): the      *)
(* quota of each route as its RateLimiter dependency states it, times      *)
(* requests per seconds.                                                   *)
(***************************************************************************)
RateLimits ==
    [get_contacts          |-> [times |-> 10, seconds |-> 60],
     get_contact           |-> [times |-> 10, seconds |-> 60],
     create_contact        |-> [times |-> 5,  seconds |-> 60],
     update_contact        |-> [times |-> 3,  seconds |-> 60],
     delete_contact        |-> [times |-> 1,  seconds |-> 60],
     update_status_contact |-> [times |-> 3,  seconds |-> 60],
     search_contacts       |-> [times |-> 10, seconds |-> 60],
     get_birthday_contacts |-> [times |-> 10, seconds |-> 60],
     get_current_user      |-> [times |-> 2,  seconds |-> 20],
     change_avatar         |-> [times |-> 1,  seconds |-> 60]]

Routes == DOMAIN RateLimits

\* The identities the limiter tells apart: the callers' network addresses.
Identities == {"ip1", "ip2"}

\* No window is open for a key.
NoWindow == [count |-> 0, ttl |-> 0]

NoCall == [seq |-> 0, identity |-> "", route |-> "", status |-> 0, detail |-> "",
           admitted |-> FALSE, ran |-> FALSE, token |-> None, before |-> <<>>]

\* The contacts table: its rows, and the last id its sequence has handed out.
NoContacts == [rows |-> {}, last_id |-> 0]

NoCres == [op |-> "none", user |-> 0, id |-> 0, status |-> 0, detail |-> "",
           result |-> <<>>, before |-> NoContacts]

InitApi ==
    /\ limiter = [k \in Identities \X Routes |-> NoWindow]
    /\ redis_up = TRUE
    /\ call = NoCall
    /\ contacts = NoContacts
    /\ cres = NoCres

Init ==
    /\ users = <<>>
    /\ mailq = <<>>
    /\ issued = {}
    /\ now = 0
    /\ resp = NoResp
    /\ revoked = {}
    /\ reqs = [r \in 1..MaxReqs |-> Idle]
    /\ InitApi

Tick ==
    /\ now < MaxTime
    /\ now' = now + 1
    /\ UNCHANGED <<users, mailq, issued, resp, revoked, reqs, apiVars>>

(***************************************************************************)
(* routes/auth.py: each handler as a function of the request and the state *)
(* it reads.  The result carries the table after the handler, the          *)
(* response, the tokens handed to the client and the background tasks      *)
(* added.                                                                  *)
(***************************************************************************)
Out(tbl, r, newTokens, tasks) ==
    [users |-> tbl, resp |-> r, issue |-> newTokens, mail |-> tasks]

\* The commit of create_user, under the unique constraint of users.email.
InsertUser(tbl, row) ==
    IF UniqueEmail(row.email, tbl)
    THEN [ok |-> TRUE, users |-> create_user(tbl, row)]
    ELSE [ok |-> FALSE, users |-> tbl]

\* response_model=UserResponse: the fields of the row that the response
\* carries.
UserResponse(row) ==
    [username |-> row.username, email |-> row.email, avatar |-> row.avatar]

\* signup without a response model: the response carries the stored row.
SignupInsertOutWholeRow(tbl, email, username, password, avatar) ==
    LET hashed == get_password_hash(password)
        ins == InsertUser(tbl, NewUser(email, username, hashed, avatar))
    IN  IF ~ins.ok
        THEN Out(tbl, Resp("signup", email, None, 500, "IntegrityError"), {}, <<>>)
        ELSE Out(ins.users,
                 [Resp("signup", email, None, 201, "") EXCEPT
                    !.user = ins.users[Len(ins.users)]],
                 {}, << <<email, username>> >>)

\* signup that does not hand the verification email to the background tasks.
SignupInsertOutNoMail(tbl, email, username, password, avatar) ==
    LET hashed == get_password_hash(password)
        ins == InsertUser(tbl, NewUser(email, username, hashed, avatar))
    IN  IF ~ins.ok
        THEN Out(tbl, Resp("signup", email, None, 500, "IntegrityError"), {}, <<>>)
        ELSE Out(ins.users,
                 [Resp("signup", email, None, 201, "") EXCEPT
                    !.user = UserResponse(ins.users[Len(ins.users)])],
                 {}, <<>>)

\* signup, from the insert on (the existence check has passed).
SignupInsertOut(tbl, email, username, password, avatar) ==
    LET hashed == get_password_hash(password)
        ins == InsertUser(tbl, NewUser(email, username, hashed, avatar))
    IN  IF ~ins.ok
        THEN Out(tbl, Resp("signup", email, None, 500, "IntegrityError"), {}, <<>>)
        ELSE Out(ins.users,
                 [Resp("signup", email, None, 201, "") EXCEPT
                    !.user = UserResponse(ins.users[Len(ins.users)])],
                 {}, << <<email, username>> >>)

\* signup without the existence check.
SignupExistsNever(tbl, email) == FALSE

SignupExists(tbl, email) == get_user_by_email(email, tbl) # 0

SignupOut(tbl, email, username, password, avatar) ==
    IF get_user_by_email(email, tbl) = -1
    THEN Out(tbl, Resp("signup", email, None, 500, "MultipleResultsFound"), {}, <<>>)
    ELSE IF SignupExists(tbl, email)
    THEN Out(tbl, Resp("signup", email, None, 409, "Account already exists"), {}, <<>>)
    ELSE SignupInsertOut(tbl, email, username, password, avatar)

\* A login that ends the session of the account after a wrong password.
LoginOutRevokeOnFailure(tbl, username, password, t) ==
    LET id == get_user_by_email(username, tbl)
    IN  IF id = -1
        THEN Out(tbl, Resp("login", username, None, 500, "MultipleResultsFound"), {}, <<>>)
        ELSE IF id = 0
        THEN Out(tbl, Resp("login", username, None, 401, "Invalid email"), {}, <<>>)
        ELSE IF ~tbl[id].confirmed
        THEN Out(tbl, Resp("login", username, None, 401, "Email not confirmed"), {}, <<>>)
        ELSE IF ~verify_password(password, tbl[id].password)
        THEN Out(update_token(tbl, id, None),
                 Resp("login", username, None, 401, "Invalid password"), {}, <<>>)
        ELSE LET at == create_access_token(tbl[id].email, t)
                 rt == create_refresh_token(tbl[id].email, t)
             IN  Out(update_token(tbl, id, rt),
                     [Resp("login", username, None, 200, "") EXCEPT
                        !.tokens = <<at, rt, "bearer">>],
                     {rt}, <<>>)

\* login without the check of the confirmed flag.
LoginOutNoConfirmCheck(tbl, username, password, t) ==
    LET id == get_user_by_email(username, tbl)
    IN  IF id = -1
        THEN Out(tbl, Resp("login", username, None, 500, "MultipleResultsFound"), {}, <<>>)
        ELSE IF id = 0
        THEN Out(tbl, Resp("login", username, None, 401, "Invalid email"), {}, <<>>)
        ELSE IF ~verify_password(password, tbl[id].password)
        THEN Out(tbl, Resp("login", username, None, 401, "Invalid password"), {}, <<>>)
        ELSE LET at == create_access_token(tbl[id].email, t)
                 rt == create_refresh_token(tbl[id].email, t)
             IN  Out(update_token(tbl, id, rt),
                     [Resp("login", username, None, 200, "") EXCEPT
                        !.tokens = <<at, rt, "bearer">>],
                     {rt}, <<>>)

\* login that verifies the password before it looks at the confirmed flag.
LoginOutPasswordFirst(tbl, username, password, t) ==
    LET id == get_user_by_email(username, tbl)
    IN  IF id = -1
        THEN Out(tbl, Resp("login", username, None, 500, "MultipleResultsFound"), {}, <<>>)
        ELSE IF id = 0
        THEN Out(tbl, Resp("login", username, None, 401, "Invalid email"), {}, <<>>)
        ELSE IF ~verify_password(password, tbl[id].password)
        THEN Out(tbl, Resp("login", username, None, 401, "Invalid password"), {}, <<>>)
        ELSE IF ~tbl[id].confirmed
        THEN Out(tbl, Resp("login", username, None, 401, "Email not confirmed"), {}, <<>>)
        ELSE LET at == create_access_token(tbl[id].email, t)
                 rt == create_refresh_token(tbl[id].email, t)
             IN  Out(update_token(tbl, id, rt),
                     [Resp("login", username, None, 200, "") EXCEPT
                        !.tokens = <<at, rt, "bearer">>],
                     {rt}, <<>>)

\* A login that signs its tokens for the email in lower case.
LoginOutLowerSub(tbl, username, password, t) ==
    LET id == get_user_by_email(username, tbl)
    IN  IF id = -1
        THEN Out(tbl, Resp("login", username, None, 500, "MultipleResultsFound"), {}, <<>>)
        ELSE IF id = 0
        THEN Out(tbl, Resp("login", username, None, 401, "Invalid email"), {}, <<>>)
        ELSE IF ~tbl[id].confirmed
        THEN Out(tbl, Resp("login", username, None, 401, "Email not confirmed"), {}, <<>>)
        ELSE IF ~verify_password(password, tbl[id].password)
        THEN Out(tbl, Resp("login", username, None, 401, "Invalid password"), {}, <<>>)
        ELSE LET at == create_access_token(Lower(tbl[id].email), t)
                 rt == create_refresh_token(Lower(tbl[id].email), t)
             IN  Out(update_token(tbl, id, rt),
                     [Resp("login", username, None, 200, "") EXCEPT
                        !.tokens = <<at, rt, "bearer">>],
                     {rt}, <<>>)

LoginOut(tbl, username, password, t) ==
    LET id == get_user_by_email(username, tbl)
    IN  IF id = -1
        THEN Out(tbl, Resp("login", username, None, 500, "MultipleResultsFound"), {}, <<>>)
        ELSE IF id = 0
        THEN Out(tbl, Resp("login", username, None, 401, "Invalid email"), {}, <<>>)
        ELSE IF ~tbl[id].confirmed
        THEN Out(tbl, Resp("login", username, None, 401, "Email not confirmed"), {}, <<>>)
        ELSE IF ~verify_password(password, tbl[id].password)
        THEN Out(tbl, Resp("login", username, None, 401, "Invalid password"), {}, <<>>)
        ELSE LET at == create_access_token(tbl[id].email, t)
                 rt == create_refresh_token(tbl[id].email, t)
             IN  Out(update_token(tbl, id, rt),
                     [Resp("login", username, None, 200, "") EXCEPT
                        !.tokens = <<at, rt, "bearer">>],
                     {rt}, <<>>)

\* refresh_token that leaves the stored token in place on a mismatch.
RefreshWriteOutKeep(tbl, id, seen, token, email, t) ==
    IF seen # token
    THEN Out(tbl, Resp("refresh_token", email, token, 401, "Invalid refresh token"),
             {}, <<>>)
    ELSE LET at == create_access_token(email, t)
             rt == create_refresh_token(email, t)
         IN  Out(update_token(tbl, id, rt),
                 [Resp("refresh_token", email, token, 200, "") EXCEPT
                    !.tokens = <<at, rt, "bearer">>],
                 {rt}, <<>>)

\* refresh_token, from the comparison on: `seen` is the refresh token of the
\* user object the handler loaded, `id` its row.
RefreshWriteOut(tbl, id, seen, token, email, t) ==
    IF seen # token
    THEN Out(update_token(tbl, id, None),
             Resp("refresh_token", email, token, 401, "Invalid refresh token"),
             {}, <<>>)
    ELSE LET at == create_access_token(email, t)
             rt == create_refresh_token(email, t)
         IN  Out(update_token(tbl, id, rt),
                 [Resp("refresh_token", email, token, 200, "") EXCEPT
                    !.tokens = <<at, rt, "bearer">>],
                 {rt}, <<>>)

RefreshOut(tbl, token, t) ==
    LET d == decode_refresh_token(token, t)
        id == get_user_by_email(d.sub, tbl)
    IN  IF ~d.ok
        THEN Out(tbl, Resp("refresh_token", "", token, 401, d.err), {}, <<>>)
        ELSE IF id = -1
        THEN Out(tbl, Resp("refresh_token", d.sub, token, 500, "MultipleResultsFound"),
                 {}, <<>>)
        ELSE IF id = 0
        THEN Out(tbl, Resp("refresh_token", d.sub, token, 500, "AttributeError"), {}, <<>>)
        ELSE RefreshWriteOut(tbl, id, tbl[id].refresh_token, token, d.sub, t)

\* confirmed_email without the test for a missing user.
ConfirmedEmailOutNoUserCheck(tbl, token, t) ==
    LET d == get_email_from_token(token, t)
        id == get_user_by_email(d.sub, tbl)
    IN  IF ~d.ok
        THEN Out(tbl, Resp("confirmed_email", "", token, 400, d.err), {}, <<>>)
        ELSE IF id = -1
        THEN Out(tbl, Resp("confirmed_email", d.sub, token, 500, "MultipleResultsFound"),
                 {}, <<>>)
        ELSE IF id = 0
        THEN Out(tbl, Resp("confirmed_email", d.sub, token, 500, "AttributeError"),
                 {}, <<>>)
        ELSE IF tbl[id].confirmed
        THEN Out(tbl, Resp("confirmed_email", d.sub, token, 200,
                           "Your email is already confirmed"), {}, <<>>)
        ELSE Out(repo_confirmed_email(tbl, d.sub),
                 Resp("confirmed_email", d.sub, token, 200, "Email confirmed"), {}, <<>>)

\* confirmed_email without the test of the confirmed flag.
ConfirmedEmailOutNoFlagCheck(tbl, token, t) ==
    LET d == get_email_from_token(token, t)
        id == get_user_by_email(d.sub, tbl)
    IN  IF ~d.ok
        THEN Out(tbl, Resp("confirmed_email", "", token, 400, d.err), {}, <<>>)
        ELSE IF id = -1
        THEN Out(tbl, Resp("confirmed_email", d.sub, token, 500, "MultipleResultsFound"),
                 {}, <<>>)
        ELSE IF id = 0
        THEN Out(tbl, Resp("confirmed_email", d.sub, token, 400, "Verification error"),
                 {}, <<>>)
        ELSE Out(repo_confirmed_email(tbl, d.sub),
                 Resp("confirmed_email", d.sub, token, 200, "Email confirmed"), {}, <<>>)

ConfirmedEmailOut(tbl, token, t) ==
    LET d == get_email_from_token(token, t)
        id == get_user_by_email(d.sub, tbl)
    IN  IF ~d.ok
        THEN Out(tbl, Resp("confirmed_email", "", token, 400, d.err), {}, <<>>)
        ELSE IF id = -1
        THEN Out(tbl, Resp("confirmed_email", d.sub, token, 500, "MultipleResultsFound"),
                 {}, <<>>)
        ELSE IF id = 0
        THEN Out(tbl, Resp("confirmed_email", d.sub, token, 400, "Verification error"),
                 {}, <<>>)
        ELSE IF tbl[id].confirmed
        THEN Out(tbl, Resp("confirmed_email", d.sub, token, 200,
                           "Your email is already confirmed"), {}, <<>>)
        ELSE Out(repo_confirmed_email(tbl, d.sub),
                 Resp("confirmed_email", d.sub, token, 200, "Email confirmed"), {}, <<>>)

\* request_email without the test of the confirmed flag.
RequestEmailOutNoFlagCheck(tbl, email) ==
    LET id == get_user_by_email(email, tbl)
    IN  IF id = -1
        THEN Out(tbl, Resp("request_email", email, None, 500, "MultipleResultsFound"),
                 {}, <<>>)
        ELSE IF id = 0
        THEN Out(tbl, Resp("request_email", email, None, 404, "not registered"), {}, <<>>)
        ELSE Out(tbl, Resp("request_email", email, None, 200,
                           "Check your email for confirmation."),
                 {}, << <<tbl[id].email, tbl[id].username>> >>)

RequestEmailOut(tbl, email) ==
    LET id == get_user_by_email(email, tbl)
    IN  IF id = -1
        THEN Out(tbl, Resp("request_email", email, None, 500, "MultipleResultsFound"),
                 {}, <<>>)
        ELSE IF id = 0
        THEN Out(tbl, Resp("request_email", email, None, 404, "not registered"), {}, <<>>)
        ELSE IF tbl[id].confirmed
        THEN Out(tbl, Resp("request_email", email, None, 200,
                           "Your email is already confirmed"), {}, <<>>)
        ELSE Out(tbl, Resp("request_email", email, None, 200,
                           "Check your email for confirmation."),
                 {}, << <<tbl[id].email, tbl[id].username>> >>)

(***************************************************************************)
(* Actions: one request handled start to end.                              *)
(***************************************************************************)
\* The request is a refresh that presents the token of the request handled
\* just before it, which was a refresh that succeeded.
IsReplay(r) ==
    /\ r.op = "refresh_token"
    /\ resp.op = "refresh_token"
    /\ resp.status = 200
    /\ resp.token = r.token

\* The refresh tokens of the subject that a successful login leaves behind.
RevokedBy(r) ==
    IF r.op = "login" /\ r.status = 200
    THEN {tok \in issued : tok[2] = "refresh_token" /\ tok[1] = r.tokens[2][1]}
    ELSE {}

Apply(o) ==
    /\ Len(o.users) <= MaxUsers
    /\ Len(mailq) + Len(o.mail) + Cardinality(issued \cup o.issue) <= MaxIssued
    /\ users' = o.users
    /\ resp' = [o.resp EXCEPT !.tasks = o.mail, !.before = users, !.at = now,
                              !.replay = IsReplay(o.resp)]
    /\ issued' = issued \cup o.issue
    /\ revoked' = revoked \cup RevokedBy(o.resp)
    /\ mailq' = mailq \o o.mail

Signup ==
    /\ \E email \in Emails, username \in Usernames, password \in SignupPasswords :
            Apply([SignupOut(users, email, username, password, Gravatar(email))
                      EXCEPT !.resp.password = password])
    /\ UNCHANGED <<now, reqs, apiVars>>

Login ==
    /\ \E username \in Emails, password \in Passwords :
            Apply([LoginOut(users, username, password, now) EXCEPT
                      !.resp.password = password])
    /\ UNCHANGED <<now, reqs, apiVars>>

RefreshToken ==
    /\ \E token \in Presentable : Apply(RefreshOut(users, token, now))
    /\ UNCHANGED <<now, reqs, apiVars>>

ConfirmedEmail ==
    /\ \E token \in Presentable : Apply(ConfirmedEmailOut(users, token, now))
    /\ UNCHANGED <<now, reqs, apiVars>>

RequestEmail ==
    /\ \E email \in Emails : Apply(RequestEmailOut(users, email))
    /\ UNCHANGED <<now, reqs, apiVars>>

\* The background task send_email runs: the verification token is made and
\* handed to the mail transport.
SendEmail ==
    /\ mailq # <<>>
    /\ mailq' = Tail(mailq)
    /\ issued' = issued \cup {create_email_token(Head(mailq)[1], now)}
    /\ UNCHANGED <<users, now, resp, revoked, reqs, apiVars>>

\* The background task fails in the mail transport: the error is swallowed.
SendEmailFails ==
    /\ mailq # <<>>
    /\ mailq' = Tail(mailq)
    /\ UNCHANGED <<users, issued, now, resp, revoked, reqs, apiVars>>

Next ==
    \/ Tick
    \/ Signup
    \/ Login
    \/ RefreshToken
    \/ ConfirmedEmail
    \/ RequestEmail
    \/ SendEmail
    \/ SendEmailFails

Spec == Init /\ [][Next]_vars

(***************************************************************************)
(* Interleaved handlers.  signup and refresh_token give up control at each *)
(* await: between the SELECT of get_user_by_email and the commit of        *)
(* create_user / update_token another request can run.  Every request has  *)
(* its own session, so what it loaded is a private copy of the row.        *)
(***************************************************************************)
\* The inputs of the interleaved runs.
ConcEmails == {"a@x.com"}
ConcPresentable == {tok \in issued : tok[2] = "refresh_token"}

Free(r) == reqs[r].pc \in {"idle", "done"}

\* A handler that runs without giving up control; its response is not kept.
ApplyQuiet(o) ==
    /\ Len(o.users) <= MaxUsers
    /\ Len(mailq) + Len(o.mail) + Cardinality(issued \cup o.issue) <= MaxIssued
    /\ users' = o.users
    /\ issued' = issued \cup o.issue
    /\ mailq' = mailq \o o.mail

ConcLogin ==
    /\ \E username \in ConcEmails, password \in SignupPasswords :
          ApplyQuiet(LoginOut(users, username, password, now))
    /\ UNCHANGED <<now, resp, revoked, reqs, apiVars>>

ConcConfirmedEmail ==
    /\ \E token \in {tok \in issued : tok[2] = "email_token"} :
          ApplyQuiet(ConfirmedEmailOut(users, token, now))
    /\ UNCHANGED <<now, resp, revoked, reqs, apiVars>>

Done(req, status, detail) ==
    [req EXCEPT !.pc = "done", !.status = status, !.detail = detail]

\* signup up to the await of create_user: the existence check.
SignupCheck(r) ==
    /\ Free(r)
    /\ \E email \in ConcEmails, username \in Usernames, password \in SignupPasswords :
          LET req == [Idle EXCEPT !.op = "signup", !.email = email,
                                  !.username = username, !.password = password,
                                  !.avatar = Gravatar(email)]
          IN  reqs' = [reqs EXCEPT ![r] =
                  IF get_user_by_email(email, users) = -1
                  THEN Done(req, 500, "MultipleResultsFound")
                  ELSE IF SignupExists(users, email)
                  THEN Done(req, 409, "Account already exists")
                  ELSE [req EXCEPT !.pc = "signup_insert"]]
    /\ UNCHANGED <<users, mailq, issued, now, resp, revoked, apiVars>>

\* signup from the commit of create_user on.
SignupInsert(r) ==
    /\ reqs[r].pc = "signup_insert"
    /\ LET req == reqs[r]
           o == SignupInsertOut(users, req.email, req.username, req.password,
                                req.avatar)
       IN  /\ Len(o.users) <= MaxUsers
           /\ Len(mailq) + Len(o.mail) + Cardinality(issued) <= MaxIssued
           /\ users' = o.users
           /\ mailq' = mailq \o o.mail
           /\ reqs' = [reqs EXCEPT ![r] = Done(req, o.resp.status, o.resp.detail)]
    /\ UNCHANGED <<issued, now, resp, revoked, apiVars>>

\* The other requests that have loaded the user and not yet written, having
\* presented the same refresh token.
InFlightWith(r, token) ==
    {q \in 1..MaxReqs \ {r} : reqs[q].pc = "refresh_write" /\ reqs[q].token = token}

\* refresh_token up to the comparison: decode and load the user.
RefreshRead(r) ==
    /\ Free(r)
    /\ \E token \in ConcPresentable :
          LET d == decode_refresh_token(token, now)
              id == get_user_by_email(d.sub, users)
              req == [Idle EXCEPT !.op = "refresh_token", !.token = token,
                                  !.email = d.sub]
              others == InFlightWith(r, token)
          IN  reqs' = [q \in 1..MaxReqs |->
                  IF q = r
                  THEN IF ~d.ok THEN Done(req, 401, d.err)
                       ELSE IF id = -1 THEN Done(req, 500, "MultipleResultsFound")
                       ELSE IF id = 0 THEN Done(req, 500, "AttributeError")
                       ELSE [req EXCEPT !.pc = "refresh_write", !.id = id,
                                        !.seen = users[id].refresh_token,
                                        !.conc = others # {}]
                  ELSE IF d.ok /\ id > 0 /\ q \in others
                       THEN [reqs[q] EXCEPT !.conc = TRUE]
                       ELSE reqs[q]]
    /\ UNCHANGED <<users, mailq, issued, now, resp, revoked, apiVars>>

\* refresh_token from the comparison on, against the copy it loaded.
RefreshWrite(r) ==
    /\ reqs[r].pc = "refresh_write"
    /\ LET req == reqs[r]
           o == RefreshWriteOut(users, req.id, req.seen, req.token, req.email, now)
       IN  /\ Len(mailq) + Cardinality(issued \cup o.issue) <= MaxIssued
           /\ users' = o.users
           /\ issued' = issued \cup o.issue
           /\ reqs' = [reqs EXCEPT ![r] =
                  [Done(req, o.resp.status, o.resp.detail) EXCEPT
                     !.rt = IF o.resp.status = 200 THEN o.resp.tokens[2] ELSE None]]
    /\ UNCHANGED <<mailq, now, resp, revoked, apiVars>>

NextConc ==
    \/ Tick
    \/ \E r \in 1..MaxReqs : SignupCheck(r)
    \/ \E r \in 1..MaxReqs : SignupInsert(r)
    \/ ConcLogin
    \/ \E r \in 1..MaxReqs : RefreshRead(r)
    \/ \E r \in 1..MaxReqs : RefreshWrite(r)
    \/ ConcConfirmedEmail
    \/ SendEmail
    \/ SendEmailFails

SpecConc == Init /\ [][NextConc]_vars

(***************************************************************************)
(* confirmed_email against any users table.  A verification token outlives *)
(* the row it was signed for when the row is removed from the database     *)
(* behind the API, which is what the handler's test for a missing user     *)
(* answers.  The call runs against every table the database can hold and   *)
(* every token the service can have signed by then.                        *)
(***************************************************************************)
\* The rows a users table can hold: a stored refresh token implies a login,
\* hence a confirmed user.
StoredRows ==
    {[NewUser(e, u, get_password_hash(p), Gravatar(e)) EXCEPT
         !.confirmed = c, !.refresh_token = rt] :
       e \in Emails, u \in Usernames, p \in SignupPasswords,
       c \in BOOLEAN, rt \in {None}} \cup
    {[NewUser(e, u, get_password_hash(p), Gravatar(e)) EXCEPT
         !.confirmed = TRUE, !.refresh_token = create_refresh_token(e, 0)] :
       e \in Emails, u \in Usernames, p \in SignupPasswords}

StoredTables ==
    {tbl \in UNION {[1..n -> StoredRows] : n \in 0..MaxUsers} :
        \A i, j \in 1..Len(tbl) : tbl[i].email = tbl[j].email => i = j}

\* The tokens the service has signed up to time t, and bytes it has not.
SignedTokens(t) ==
    UNION {{create_email_token(e, s), create_refresh_token(e, s),
            create_access_token(e, s)} : e \in Emails, s \in 0..t} \cup {Garbage}

InitConfirm ==
    /\ users \in StoredTables
    /\ now \in 0..MaxTime
    /\ mailq = <<>>
    /\ issued = {}
    /\ resp = NoResp
    /\ revoked = {}
    /\ reqs = [r \in 1..MaxReqs |-> Idle]
    /\ InitApi

ConfirmCall ==
    /\ \E token \in SignedTokens(now) : Apply(ConfirmedEmailOut(users, token, now))
    /\ UNCHANGED <<now, reqs, apiVars>>

NextConfirm == ConfirmCall

SpecConfirm == InitConfirm /\ [][NextConfirm]_vars

(***************************************************************************)
(* Signup and its background task.  The response is written first and the  *)
(* background tasks of the request run after it, whether or not the client *)
(* is still there to read the response: once a task is queued the server   *)
(* goes on to run it.                                                      *)
(***************************************************************************)
\* signup whose client has gone away before the response is written: the
\* handler has committed the row and added the task, the response is lost.
SignupAborted ==
    /\ \E email \in Emails, username \in Usernames, password \in SignupPasswords :
          LET o == SignupOut(users, email, username, password, Gravatar(email))
          IN  /\ o.resp.status = 201
              /\ Apply([o EXCEPT !.resp.status = 0, !.resp.detail = "aborted",
                                 !.resp.user = None, !.resp.password = password])
    /\ UNCHANGED <<now, reqs, apiVars>>

NextMail ==
    \/ Tick
    \/ Signup
    \/ SignupAborted
    \/ RequestEmail
    \/ SendEmail
    \/ SendEmailFails

SpecMail == Init /\ [][NextMail]_vars /\ WF_vars(SendEmail \/ SendEmailFails)

(***************************************************************************)
(* The rate limiter (the RateLimiter dependency of every contacts route,   *)
(* over the backing store set up at startup): a fixed-window counter per   *)
(* (identity, route).  The first admitted request of a key opens a window  *)
(* of the route's length; the window is over when the time since it opened *)
(* exceeds that length, and its counter is gone with it.                   *)
(***************************************************************************)
\* The seconds by which the clock of the backing store moves in one step.
ClockStep == 30

\* The routes requested in the runs of the limiter.
LimitedRoutes == {"update_contact", "delete_contact"}

\* A limiter that admits one request more than the quota.
AdmitOneMore(store, identity, route) ==
    LET key == <<identity, route>>
        w == store[key]
        lim == RateLimits[route]
    IN  IF w.count = 0
        THEN [allowed |-> TRUE,
              store |-> [store EXCEPT ![key] = [count |-> 1, ttl |-> lim.seconds]]]
        ELSE IF w.count > lim.times
        THEN [allowed |-> FALSE, store |-> store]
        ELSE [allowed |-> TRUE, store |-> [store EXCEPT ![key].count = w.count + 1]]

\* A limiter that counts per identity, over all routes together.
AdmitPerIdentity(store, identity, route) ==
    LET w == store[<<identity, route>>]
        lim == RateLimits[route]
    IN  IF w.count = 0
        THEN [allowed |-> TRUE,
              store |-> [k \in DOMAIN store |->
                           IF k[1] = identity /\ store[k].count = 0
                           THEN [count |-> 1, ttl |-> lim.seconds]
                           ELSE store[k]]]
        ELSE IF w.count + 1 > lim.times
        THEN [allowed |-> FALSE, store |-> store]
        ELSE [allowed |-> TRUE,
              store |-> [k \in DOMAIN store |->
                           IF k[1] = identity /\ store[k].count > 0
                           THEN [store[k] EXCEPT !.count = @ + 1]
                           ELSE store[k]]]

\* admit(identity, route_key): the counter is incremented on each admitted
\* request, and the request is denied once the counter would exceed the
\* threshold within the open window.
Admit(store, identity, route) ==
    LET key == <<identity, route>>
        w == store[key]
        lim == RateLimits[route]
    IN  IF w.count = 0
        THEN [allowed |-> TRUE,
              store |-> [store EXCEPT ![key] = [count |-> 1, ttl |-> lim.seconds]]]
        ELSE IF w.count + 1 > lim.times
        THEN [allowed |-> FALSE, store |-> store]
        ELSE [allowed |-> TRUE, store |-> [store EXCEPT ![key].count = w.count + 1]]

\* The windows after d seconds: a window whose time is exceeded is reset.
Expire(store, d) ==
    [k \in DOMAIN store |->
        IF store[k].count > 0 /\ store[k].ttl - d >= 0
        THEN [store[k] EXCEPT !.ttl = @ - d]
        ELSE NoWindow]

\* An admission check that lets the request pass when the store is down.
LimiterOutFailOpen(store, up, identity, route) ==
    IF ~up
    THEN [store |-> store, admitted |-> TRUE, status |-> 0, detail |-> ""]
    ELSE LET a == Admit(store, identity, route)
         IN  IF a.allowed
             THEN [store |-> a.store, admitted |-> TRUE, status |-> 0, detail |-> ""]
             ELSE [store |-> store, admitted |-> FALSE, status |-> 429,
                   detail |-> "Too Many Requests"]

\* The admission check of a request, the first dependency of the route: it
\* fails with an error when the backing store does not answer, and with
\* RateLimited when the limiter denies.
LimiterOut(store, up, identity, route) ==
    IF ~up
    THEN [store |-> store, admitted |-> FALSE, status |-> 500,
          detail |-> "ConnectionError"]
    ELSE LET a == Admit(store, identity, route)
         IN  IF a.allowed
             THEN [store |-> a.store, admitted |-> TRUE, status |-> 0, detail |-> ""]
             ELSE [store |-> store, admitted |-> FALSE, status |-> 429,
                   detail |-> "Too Many Requests"]

\* A request to a rate-limited route.  The rest of the route (its other
\* dependencies and the handler) runs only when the admission check has
\* let the request pass.
LimitedCall ==
    /\ \E identity \in Identities, route \in LimitedRoutes :
          LET o == LimiterOut(limiter, redis_up, identity, route)
          IN  /\ limiter' = o.store
              /\ call' = [seq |-> 1 - call.seq, identity |-> identity,
                          route |-> route,
                          status |-> IF o.admitted THEN 200 ELSE o.status,
                          detail |-> o.detail, admitted |-> o.admitted,
                          ran |-> o.admitted, token |-> None, before |-> users]
    /\ UNCHANGED <<authVars, redis_up, contacts, cres>>

\* Time passes.
Elapse ==
    /\ limiter' = Expire(limiter, ClockStep)
    /\ UNCHANGED <<authVars, redis_up, call, contacts, cres>>

\* The backing store stops answering, and answers again.
RedisFails ==
    /\ redis_up
    /\ redis_up' = FALSE
    /\ UNCHANGED <<authVars, limiter, call, contacts, cres>>

RedisRecovers ==
    /\ ~redis_up
    /\ redis_up' = TRUE
    /\ UNCHANGED <<authVars, limiter, call, contacts, cres>>

NextLimiter ==
    \/ LimitedCall
    \/ Elapse
    \/ RedisFails
    \/ RedisRecovers

SpecLimiter == Init /\ [][NextLimiter]_vars

(***************************************************************************)
(* Contacts: repository/contacts.py under routes/contacts.py.  A contact   *)
(* row carries its id, the id of the user that owns it and the fields of   *)
(* ContactSchema.  Text that is searched is the sequence of its            *)
(* characters; a date is <<year, month, day>>.                             *)
(***************************************************************************)
MaxContacts == 2

\* Request bodies (ContactSchema, ContactUpdateSchema).
ContactBodies ==
    {[name |-> <<"A", "n", "n">>, lastname |-> <<"L", "e", "e">>,
      email |-> <<"a", "@", "x">>, phone |-> "111", birthday |-> <<2000, 6, 15>>,
      notes |-> "", favourite |-> FALSE],
     [name |-> <<"B", "o", "b">>, lastname |-> <<"R", "a", "y">>,
      email |-> <<"b", "@", "x">>, phone |-> "222", birthday |-> <<1999, 12, 28>>,
      notes |-> "n", favourite |-> TRUE],
     [name |-> <<"E", "v", "e">>, lastname |-> <<"F", "o", "x">>,
      email |-> <<"e", "@", "x">>, phone |-> "333", birthday |-> <<2000, 2, 29>>,
      notes |-> "", favourite |-> FALSE]}

\* Query parameters: search strings, the server's date, days ahead, offset.
SearchStrings == {<<"a">>, <<"N", "N">>, <<"_", "o">>, <<"z">>}
Todays == {<<2024, 6, 10>>, <<2024, 6, 1>>, <<2024, 12, 25>>}
DaysAhead == {5, 10}
Offsets == {0, 1}
PageLimit == 10

\* The users that hold contacts: two users that have signed up and
\* confirmed their email.
TwoUsers ==
    LET one == create_user(<<>>, NewUser("a@x.com", "test",
                                         get_password_hash("12345678"),
                                         Gravatar("a@x.com")))
        two == create_user(one, NewUser("A@x.com", "test",
                                        get_password_hash("12345678"),
                                        Gravatar("A@x.com")))
    IN  repo_confirmed_email(repo_confirmed_email(two, "a@x.com"), "A@x.com")

\* ILIKE: % matches any run of characters, _ any one character, letters
\* match whatever their case.
UpperToLower ==
    ("A" :> "a") @@ ("B" :> "b") @@ ("E" :> "e") @@ ("F" :> "f") @@
    ("L" :> "l") @@ ("N" :> "n") @@ ("R" :> "r")
FoldCase(c) == IF c \in DOMAIN UpperToLower THEN UpperToLower[c] ELSE c

RECURSIVE ILike(_, _)
ILike(text, pattern) ==
    IF pattern = <<>> THEN text = <<>>
    ELSE IF Head(pattern) = "%"
    THEN ILike(text, Tail(pattern)) \/ (text # <<>> /\ ILike(Tail(text), pattern))
    ELSE /\ text # <<>>
         /\ Head(pattern) = "_" \/ FoldCase(Head(pattern)) = FoldCase(Head(text))
         /\ ILike(Tail(text), Tail(pattern))

\* Dates: the day number of a date (date.toordinal), and the year of the
\* date 365 days after a date.
IsLeap(y) == (y % 4 = 0 /\ y % 100 # 0) \/ y % 400 = 0
DaysInMonth(y, m) ==
    IF m = 2 THEN (IF IsLeap(y) THEN 29 ELSE 28)
    ELSE IF m \in {4, 6, 9, 11} THEN 30 ELSE 31

RECURSIVE DaysBeforeMonth(_, _)
DaysBeforeMonth(y, m) ==
    IF m = 1 THEN 0 ELSE DaysBeforeMonth(y, m - 1) + DaysInMonth(y, m - 1)

DaysBeforeYear(y) ==
    365 * (y - 1) + ((y - 1) \div 4) - ((y - 1) \div 100) + ((y - 1) \div 400)

Ordinal(date) == DaysBeforeYear(date[1]) + DaysBeforeMonth(date[1], date[2]) + date[3]

YearAfter365(today) ==
    IF Ordinal(today) + 365 >= Ordinal(<<today[1] + 1, 1, 1>>)
    THEN today[1] + 1 ELSE today[1]

\* scalars().all(): the selected rows as a list, in the order of their ids.
RECURSIVE RowList(_)
RowList(rows) ==
    IF rows = {} THEN <<>>
    ELSE LET first == CHOOSE r \in rows : \A q \in rows : r.id <= q.id
         IN  <<first>> \o RowList(rows \ {first})

\* .offset(offset).limit(limit)
Page(list, offset, limit) ==
    SubSeq(list, offset + 1,
           IF Len(list) < offset + limit THEN Len(list) ELSE offset + limit)

\* A query that leaves out the filter on the owner.
OwnedByAnyone(tbl, current_user) == tbl.rows

\* select(Contact).filter_by(user=current_user)
OwnedBy(tbl, current_user) == {r \in tbl.rows : r.user = current_user}

\* select(Contact).filter_by(id=contact_id, user=current_user),
\* scalar_one_or_none(): the rows selected, none or one as id is the key.
OneOwnedBy(tbl, contact_id, current_user) ==
    {r \in OwnedBy(tbl, current_user) : r.id = contact_id}

repo_get_contacts(tbl, limit, offset, current_user) ==
    Page(RowList(OwnedBy(tbl, current_user)), offset, limit)

repo_get_contact(tbl, contact_id, current_user) ==
    RowList(OneOwnedBy(tbl, contact_id, current_user))

\* create_contact: Contact(**body, user=current_user); add, commit, refresh.
repo_create_contact(tbl, body, current_user) ==
    LET row == [id |-> tbl.last_id + 1, user |-> current_user,
                name |-> body.name, lastname |-> body.lastname,
                email |-> body.email, phone |-> body.phone,
                birthday |-> body.birthday, notes |-> body.notes,
                favourite |-> body.favourite]
    IN  [tbl |-> [rows |-> tbl.rows \cup {row}, last_id |-> tbl.last_id + 1],
         result |-> <<row>>]

\* An update that takes only the names and the email from the body.
repo_update_contact_partial(tbl, contact_id, body, current_user) ==
    LET found == OneOwnedBy(tbl, contact_id, current_user)
    IN  IF found = {} THEN [tbl |-> tbl, result |-> <<>>]
        ELSE LET old == CHOOSE r \in found : TRUE
                 new == [old EXCEPT !.name = body.name, !.lastname = body.lastname,
                                    !.email = body.email]
             IN  [tbl |-> [tbl EXCEPT !.rows = (@ \ {old}) \cup {new}],
                  result |-> <<new>>]

repo_update_contact(tbl, contact_id, body, current_user) ==
    LET found == OneOwnedBy(tbl, contact_id, current_user)
    IN  IF found = {} THEN [tbl |-> tbl, result |-> <<>>]
        ELSE LET old == CHOOSE r \in found : TRUE
                 new == [old EXCEPT !.name = body.name, !.lastname = body.lastname,
                                    !.email = body.email, !.phone = body.phone,
                                    !.birthday = body.birthday, !.notes = body.notes,
                                    !.favourite = body.favourite]
             IN  [tbl |-> [tbl EXCEPT !.rows = (@ \ {old}) \cup {new}],
                  result |-> <<new>>]

\* A delete that selects the contact by its id alone.
repo_delete_contact_by_id(tbl, contact_id, current_user) ==
    LET found == {r \in tbl.rows : r.id = contact_id}
    IN  IF found = {} THEN [tbl |-> tbl, result |-> <<>>]
        ELSE [tbl |-> [tbl EXCEPT !.rows = @ \ found], result |-> RowList(found)]

repo_delete_contact(tbl, contact_id, current_user) ==
    LET found == OneOwnedBy(tbl, contact_id, current_user)
    IN  IF found = {} THEN [tbl |-> tbl, result |-> <<>>]
        ELSE [tbl |-> [tbl EXCEPT !.rows = @ \ found], result |-> RowList(found)]

repo_update_status_contact(tbl, contact_id, favourite, current_user) ==
    LET found == OneOwnedBy(tbl, contact_id, current_user)
    IN  IF found = {} THEN [tbl |-> tbl, result |-> <<>>]
        ELSE LET old == CHOOSE r \in found : TRUE
                 new == [old EXCEPT !.favourite = favourite]
             IN  [tbl |-> [tbl EXCEPT !.rows = (@ \ {old}) \cup {new}],
                  result |-> <<new>>]

repo_search_contacts(tbl, search, current_user) ==
    LET pattern == <<"%">> \o search \o <<"%">>
    IN  RowList({r \in OwnedBy(tbl, current_user) :
                    \/ ILike(r.name, pattern)
                    \/ ILike(r.lastname, pattern)
                    \/ ILike(r.email, pattern)})

\* to_date(text, 'YYYY-MM-DD') of the database: a day that the month of that
\* year does not have is out of range, and the statement fails.
to_date(y, m, d) ==
    IF d <= DaysInMonth(y, m)
    THEN [ok |-> TRUE, date |-> Ordinal(<<y, m, d>>)]
    ELSE [ok |-> FALSE, date |-> 0]

\* get_birthday_contacts: the rows of the user whose birthday, put into the
\* year of today or into the year of today + 365 days, is between today and
\* today + days.  The second operand of the OR is evaluated for a row when
\* the first is false.  The statement fails when a to_date fails on a row.
repo_get_birthday_contacts(tbl, days, today, current_user) ==
    LET end_date == Ordinal(today) + days
        current_year_birthday(r) == to_date(today[1], r.birthday[2], r.birthday[3])
        next_year_birthday(r) ==
            to_date(YearAfter365(today), r.birthday[2], r.birthday[3])
        between(d) == Ordinal(today) <= d.date /\ d.date <= end_date
        fails(r) ==
            \/ ~current_year_birthday(r).ok
            \/ ~between(current_year_birthday(r)) /\ ~next_year_birthday(r).ok
        mine == OwnedBy(tbl, current_user)
    IN  IF \E r \in mine : fails(r)
        THEN [raised |-> TRUE, rows |-> <<>>]
        ELSE [raised |-> FALSE,
              rows |-> RowList({r \in mine :
                                  \/ between(current_year_birthday(r))
                                  \/ between(next_year_birthday(r))})]

\* routes/contacts.py: the response of each route and the table it leaves.
ContactOut(tbl, op, user, id, status, detail, result) ==
    [contacts |-> tbl,
     cres |-> [op |-> op, user |-> user, id |-> id, status |-> status,
               detail |-> detail, result |-> result]]

\* A route that answers 200 whatever the repository returns.
FoundOrNot(op, id, user, r, detail) ==
    ContactOut(r.tbl, op, user, id, 200, "", r.result)

Found(op, id, user, r, detail) ==
    IF r.result = <<>>
    THEN ContactOut(r.tbl, op, user, id, 404, detail, <<>>)
    ELSE ContactOut(r.tbl, op, user, id, 200, "", r.result)

\* get_birthday_contacts of routes/contacts.py: an error of the statement is
\* not caught, and the request ends with 500.
BirthdaysOut(tbl, days, today, user) ==
    LET q == repo_get_birthday_contacts(tbl, days, today, user)
        o == IF q.raised
             THEN ContactOut(tbl, "get_birthday_contacts", user, 0, 500,
                             "DataError", <<>>)
             ELSE ContactOut(tbl, "get_birthday_contacts", user, 0, 200, "", q.rows)
    IN  [o EXCEPT !.cres = [today |-> today, days |-> days] @@ @]

\* update_contact and update_status_contact of routes/contacts.py.
UpdateContactOut(tbl, id, body, user) ==
    [Found("update_contact", id, user, repo_update_contact(tbl, id, body, user),
           "NOT FOUND")
        EXCEPT !.cres = [body |-> body] @@ @]

UpdateStatusContactOut(tbl, id, favourite, user) ==
    [Found("update_status_contact", id, user,
           repo_update_status_contact(tbl, id, favourite, user), "Note not found")
        EXCEPT !.cres = [favourite |-> favourite] @@ @]

ApplyContact(o) ==
    /\ contacts' = o.contacts
    /\ cres' = [before |-> contacts] @@ o.cres
    /\ UNCHANGED <<authVars, limiter, redis_up, call>>

get_contacts ==
    \E user \in 1..Len(users), offset \in Offsets :
        ApplyContact(ContactOut(contacts, "get_contacts", user, 0, 200, "",
                                repo_get_contacts(contacts, PageLimit, offset, user)))

get_contact ==
    \E user \in 1..Len(users), id \in 1..MaxContacts :
        ApplyContact(Found("get_contact", id, user,
                           [tbl |-> contacts,
                            result |-> repo_get_contact(contacts, id, user)],
                           "NOT FOUND"))

create_contact ==
    /\ contacts.last_id < MaxContacts
    /\ \E user \in 1..Len(users), body \in ContactBodies :
          LET r == repo_create_contact(contacts, body, user)
          IN  ApplyContact(ContactOut(r.tbl, "create_contact", user, 0, 201, "",
                                      r.result))

update_contact ==
    \E user \in 1..Len(users), id \in 1..MaxContacts, body \in ContactBodies :
        ApplyContact(UpdateContactOut(contacts, id, body, user))

delete_contact ==
    \E user \in 1..Len(users), id \in 1..MaxContacts :
        LET r == repo_delete_contact(contacts, id, user)
        IN  ApplyContact(ContactOut(r.tbl, "delete_contact", user, id, 204, "",
                                    r.result))

update_status_contact ==
    \E user \in 1..Len(users), id \in 1..MaxContacts, favourite \in BOOLEAN :
        ApplyContact(UpdateStatusContactOut(contacts, id, favourite, user))

search_contacts ==
    \E user \in 1..Len(users), search \in SearchStrings :
        ApplyContact(ContactOut(contacts, "search_contacts", user, 0, 200, "",
                                repo_search_contacts(contacts, search, user)))

get_birthday_contacts ==
    \E user \in 1..Len(users), days \in DaysAhead, today \in Todays :
        ApplyContact(BirthdaysOut(contacts, days, today, user))

InitContacts ==
    /\ users = TwoUsers
    /\ mailq = <<>>
    /\ issued = {}
    /\ now = 0
    /\ resp = NoResp
    /\ revoked = {}
    /\ reqs = [r \in 1..MaxReqs |-> Idle]
    /\ InitApi

NextContacts ==
    \/ get_contacts
    \/ get_contact
    \/ create_contact
    \/ update_contact
    \/ delete_contact
    \/ update_status_contact
    \/ search_contacts
    \/ get_birthday_contacts

SpecContacts == InitContacts /\ [][NextContacts]_vars

(***************************************************************************)
(* The protected routes as requests: every route of routes/contacts.py and *)
(* routes/users.py names the admission check in its decorator and takes    *)
(* the current user from auth_service.get_current_user, so a request       *)
(* passes the limiter, then the access-token guard, and then runs the      *)
(* handler.  call describes the last request, cres what its handler did.   *)
(***************************************************************************)
\* The number of windows that the limiter may have open together, and the
\* number of contacts that the requests may create.
MaxOpen == 1
MaxCreated == 1

\* The caller's address.
ApiIdentities == {"ip1"}

\* The one user in the table, confirmed.
OneUser == SubSeq(TwoUsers, 1, 1)

\* The bearer tokens a request can carry: the user's access token, signed
\* just now or at the start, the user's refresh token, an access token whose
\* subject has no row, and bytes that do not verify.
BearerTokens(t) ==
    {create_access_token("a@x.com", t), create_access_token("a@x.com", 0),
     create_refresh_token("a@x.com", t), create_access_token("A@x.com", t),
     Garbage}

\* A guard that takes a token of any kind.
CurrentUserAnyKind(token, tbl, t) ==
    LET id == IF Len(token) = 4 THEN get_user_by_email(token[1], tbl) ELSE 0
    IN  IF Len(token) # 4 \/ token[4] < t
        THEN [ok |-> FALSE, user |-> 0, status |-> 401, detail |-> "InvalidToken"]
        ELSE IF id <= 0
        THEN [ok |-> FALSE, user |-> 0, status |-> 401, detail |-> "UserNotFound"]
        ELSE [ok |-> TRUE, user |-> id, status |-> 0, detail |-> ""]

\* A guard that does not look the subject up.
CurrentUserNoLookup(token, tbl, t) ==
    LET d == DecodeToken(token, "access_token", t)
    IN  IF ~d.ok
        THEN [ok |-> FALSE, user |-> 0, status |-> 401, detail |-> d.err]
        ELSE [ok |-> TRUE, user |-> 1, status |-> 0, detail |-> ""]

\* auth_service.get_current_user: the token is decoded as an access token
\* and its subject looked up among the users.
CurrentUser(token, tbl, t) ==
    LET d == DecodeToken(token, "access_token", t)
        id == get_user_by_email(d.sub, tbl)
    IN  IF ~d.ok
        THEN [ok |-> FALSE, user |-> 0, status |-> 401, detail |-> d.err]
        ELSE IF id = -1
        THEN [ok |-> FALSE, user |-> 0, status |-> 500,
              detail |-> "MultipleResultsFound"]
        ELSE IF id = 0
        THEN [ok |-> FALSE, user |-> 0, status |-> 401, detail |-> "UserNotFound"]
        ELSE [ok |-> TRUE, user |-> id, status |-> 0, detail |-> ""]

\* The avatar that the image store returns for an upload of the user.
Uploaded(email) == <<"cloudinary", email>>

\* repository users.update_avatar_url
update_avatar_url(tbl, email, url) ==
    [tbl EXCEPT ![get_user_by_email(email, tbl)].avatar = url]

\* The keys that have a window open.
OpenWindows(store) == {k \in DOMAIN store : store[k].count > 0}

\* A request that runs the handler although the limiter has denied it.
ProtectedOutHandlerFirst(identity, route, token, handler) ==
    LET l == LimiterOut(limiter, redis_up, identity, route)
        g == CurrentUser(token, users, now)
        made == [seq |-> 1 - call.seq, identity |-> identity, route |-> route,
                 status |-> 0, detail |-> "", admitted |-> l.admitted,
                 ran |-> FALSE, token |-> token, before |-> users]
        idle == [NoCres EXCEPT !.before = contacts]
    IN  IF ~g.ok
        THEN [limiter |-> l.store, users |-> users, contacts |-> contacts,
              cres |-> idle,
              call |-> [made EXCEPT !.status = g.status, !.detail = g.detail]]
        ELSE LET o == handler[g.user]
             IN  [limiter |-> l.store, users |-> o.users, contacts |-> o.contacts,
                  cres |-> [before |-> contacts] @@ o.cres,
                  call |-> [made EXCEPT !.ran = TRUE,
                               !.status = IF l.admitted THEN o.cres.status
                                          ELSE l.status,
                               !.detail = IF l.admitted THEN o.cres.detail
                                          ELSE l.detail]]

\* A request in which the guard runs before the admission check: a request
\* that the guard rejects is not counted.
ProtectedOutGuardFirst(identity, route, token, handler) ==
    LET g == CurrentUser(token, users, now)
        l == IF g.ok THEN LimiterOut(limiter, redis_up, identity, route)
             ELSE [store |-> limiter, admitted |-> FALSE, status |-> g.status,
                   detail |-> g.detail]
        made == [seq |-> 1 - call.seq, identity |-> identity, route |-> route,
                 status |-> 0, detail |-> "", admitted |-> l.admitted,
                 ran |-> FALSE, token |-> token, before |-> users]
        idle == [NoCres EXCEPT !.before = contacts]
    IN  IF ~l.admitted
        THEN [limiter |-> l.store, users |-> users, contacts |-> contacts,
              cres |-> idle,
              call |-> [made EXCEPT !.status = l.status, !.detail = l.detail]]
        ELSE LET o == handler[g.user]
             IN  [limiter |-> l.store, users |-> o.users, contacts |-> o.contacts,
                  cres |-> [before |-> contacts] @@ o.cres,
                  call |-> [made EXCEPT !.ran = TRUE, !.status = o.cres.status,
                                        !.detail = o.cres.detail]]

\* A request to a protected route: the dependencies of the decorator are
\* resolved first, then those of the parameters; the handler runs when none
\* of them has raised.  handler[user] is what the handler does when it runs
\* for the user.
ProtectedOut(identity, route, token, handler) ==
    LET l == LimiterOut(limiter, redis_up, identity, route)
        g == CurrentUser(token, users, now)
        made == [seq |-> 1 - call.seq, identity |-> identity, route |-> route,
                 status |-> 0, detail |-> "", admitted |-> l.admitted,
                 ran |-> FALSE, token |-> token, before |-> users]
        idle == [NoCres EXCEPT !.before = contacts]
    IN  IF ~l.admitted
        THEN [limiter |-> l.store, users |-> users, contacts |-> contacts,
              cres |-> idle,
              call |-> [made EXCEPT !.status = l.status, !.detail = l.detail]]
        ELSE IF ~g.ok
        THEN [limiter |-> l.store, users |-> users, contacts |-> contacts,
              cres |-> idle,
              call |-> [made EXCEPT !.status = g.status, !.detail = g.detail]]
        ELSE LET o == handler[g.user]
             IN  [limiter |-> l.store, users |-> o.users, contacts |-> o.contacts,
                  cres |-> [before |-> contacts] @@ o.cres,
                  call |-> [made EXCEPT !.ran = TRUE, !.status = o.cres.status,
                                        !.detail = o.cres.detail]]

Protected(identity, route, token, handler) ==
    LET o == ProtectedOut(identity, route, token, handler)
    IN  /\ Cardinality(OpenWindows(o.limiter)) <= MaxOpen
        /\ limiter' = o.limiter
        /\ users' = o.users
        /\ contacts' = o.contacts
        /\ cres' = o.cres
        /\ call' = o.call
        /\ UNCHANGED <<mailq, issued, now, resp, revoked, reqs, redis_up>>

\* What a handler of routes/contacts.py leaves: the users as they are.
OfContacts(o) == [users |-> users] @@ o

GET_contacts ==
    \E identity \in ApiIdentities, token \in BearerTokens(now), offset \in Offsets :
        Protected(identity, "get_contacts", token,
                  [user \in DOMAIN users |-> OfContacts(ContactOut(contacts, "get_contacts", user,
                      0, 200, "",
                      repo_get_contacts(contacts, PageLimit, offset, user)))])

GET_contact ==
    \E identity \in ApiIdentities, token \in BearerTokens(now),
       id \in 1..MaxCreated :
        Protected(identity, "get_contact", token,
                  [user \in DOMAIN users |-> OfContacts(Found("get_contact", id, user,
                      [tbl |-> contacts,
                       result |-> repo_get_contact(contacts, id, user)],
                      "NOT FOUND"))])

POST_contacts ==
    /\ contacts.last_id < MaxCreated
    /\ \E identity \in ApiIdentities, token \in BearerTokens(now),
          body \in ContactBodies :
          Protected(identity, "create_contact", token,
                    [user \in DOMAIN users |->
                        LET r == repo_create_contact(contacts, body, user)
                        IN  OfContacts(ContactOut(r.tbl, "create_contact", user, 0,
                                                  201, "", r.result))])

PUT_contact ==
    \E identity \in ApiIdentities, token \in BearerTokens(now),
       id \in 1..MaxCreated, body \in ContactBodies :
        Protected(identity, "update_contact", token,
                  [user \in DOMAIN users |-> OfContacts(UpdateContactOut(contacts, id, body,
                                                            user))])

DELETE_contact ==
    \E identity \in ApiIdentities, token \in BearerTokens(now),
       id \in 1..MaxCreated :
        Protected(identity, "delete_contact", token,
                  [user \in DOMAIN users |->
                      LET r == repo_delete_contact(contacts, id, user)
                      IN  OfContacts(ContactOut(r.tbl, "delete_contact", user, id,
                                                204, "", r.result))])

PATCH_contact ==
    \E identity \in ApiIdentities, token \in BearerTokens(now),
       id \in 1..MaxCreated, favourite \in BOOLEAN :
        Protected(identity, "update_status_contact", token,
                  [user \in DOMAIN users |-> OfContacts(UpdateStatusContactOut(contacts, id,
                                                                  favourite, user))])

GET_search ==
    \E identity \in ApiIdentities, token \in BearerTokens(now),
       search \in SearchStrings :
        Protected(identity, "search_contacts", token,
                  [user \in DOMAIN users |-> OfContacts(ContactOut(contacts, "search_contacts",
                      user, 0, 200, "",
                      repo_search_contacts(contacts, search, user)))])

GET_birthdays ==
    \E identity \in ApiIdentities, token \in BearerTokens(now),
       days \in DaysAhead, today \in Todays :
        Protected(identity, "get_birthday_contacts", token,
                  [user \in DOMAIN users |-> OfContacts(BirthdaysOut(contacts, days, today,
                                                        user))])

\* GET /users/myself: the current user is the response.
GET_myself ==
    \E identity \in ApiIdentities, token \in BearerTokens(now) :
        Protected(identity, "get_current_user", token,
                  [user \in DOMAIN users |-> OfContacts(ContactOut(contacts, "get_current_user",
                      user, 0, 200, "", <<UserResponse(users[user])>>))])

\* PATCH /users/avatar: the upload's address becomes the user's avatar.
PATCH_avatar ==
    \E identity \in ApiIdentities, token \in BearerTokens(now) :
        Protected(identity, "change_avatar", token,
                  [user \in DOMAIN users |->
                      LET tbl == update_avatar_url(users, users[user].email,
                                                   Uploaded(users[user].email))
                      IN  [users |-> tbl] @@
                          ContactOut(contacts, "change_avatar", user, 0, 200, "",
                                     <<UserResponse(tbl[user])>>)])

InitRoutes ==
    /\ users = OneUser
    /\ mailq = <<>>
    /\ issued = {}
    /\ now = MaxTime
    /\ resp = NoResp
    /\ revoked = {}
    /\ reqs = [r \in 1..MaxReqs |-> Idle]
    /\ InitApi

\* A minute passes: every window is over.
WindowsEnd ==
    /\ limiter' = [k \in DOMAIN limiter |-> NoWindow]
    /\ UNCHANGED <<authVars, redis_up, call, contacts, cres>>

NextRoutes ==
    \/ GET_contacts
    \/ GET_contact
    \/ POST_contacts
    \/ PUT_contact
    \/ DELETE_contact
    \/ PATCH_contact
    \/ GET_search
    \/ GET_birthdays
    \/ GET_myself
    \/ PATCH_avatar
    \/ WindowsEnd

SpecRoutes == InitRoutes /\ [][NextRoutes]_vars

(***************************************************************************)
(* The two consumers of bearer tokens side by side: refresh_token, which   *)
(* decodes its bearer as a refresh token, and a protected route, whose     *)
(* guard decodes it as an access token.  Each is handed every token the    *)
(* service signs, against every one-user table.                            *)
(***************************************************************************)
InitKinds ==
    /\ users \in {tbl \in StoredTables : Len(tbl) = 1}
    /\ now \in 0..MaxTime
    /\ mailq = <<>>
    /\ issued = {}
    /\ resp = NoResp
    /\ revoked = {}
    /\ reqs = [r \in 1..MaxReqs |-> Idle]
    /\ InitApi

RefreshCall ==
    /\ \E token \in SignedTokens(now) : Apply(RefreshOut(users, token, now))
    /\ UNCHANGED <<now, reqs, apiVars>>

NextKinds ==
    \/ RefreshCall
    \/ GET_contact
    \/ WindowsEnd

SpecKinds == InitKinds /\ [][NextKinds]_vars

(***************************************************************************)
(* The token codec on its own: a token is issued for a subject and a kind  *)
(* at some time and decoded, at that time or later, with an expected kind. *)
(* resp holds the last decode: the token, the expected kind, the time and  *)
(* what decode returned.                                                   *)
(***************************************************************************)
TokenKinds == {"access_token", "refresh_token", "email_token"}

TTLOf ==
    [access_token |-> AccessTTL, refresh_token |-> RefreshTTL,
     email_token |-> EmailTTL]

InitCodec ==
    /\ users = <<>>
    /\ now = 0
    /\ mailq = <<>>
    /\ issued = {}
    /\ resp = NoResp
    /\ revoked = {}
    /\ reqs = [r \in 1..MaxReqs |-> Idle]
    /\ InitApi

\* issue(subject, kind, ttl)
IssueToken ==
    /\ issued = {}
    /\ \E sub \in Emails, kind \in TokenKinds :
          issued' = {CreateToken(sub, kind, TTLOf[kind], now)}
    /\ UNCHANGED <<users, mailq, now, resp, revoked, reqs, apiVars>>

\* decode(token, expected_kind)
DecodeCall ==
    /\ \E token \in issued, kind \in TokenKinds :
          resp' = [op |-> "decode", token |-> token, kind |-> kind, at |-> now,
                   out |-> DecodeToken(token, kind, now)]
    /\ UNCHANGED <<users, mailq, issued, now, revoked, reqs, apiVars>>

NextCodec ==
    \/ IssueToken
    \/ Tick
    \/ DecodeCall

SpecCodec == InitCodec /\ [][NextCodec]_vars

(***************************************************************************)
(* Properties.  resp describes the last request handled; the users table   *)
(* changes only in requests, so `users` is the table that request left and *)
(* resp.before the table it found.                                         *)
(***************************************************************************)
Before == resp.before
RowsOf(tbl, email) == {i \in 1..Len(tbl) : tbl[i].email = email}
CorrectPassword(row, password) == row.password = <<"hash", password>>
ValidAt(token, kind, t) == Len(token) = 4 /\ token[2] = kind /\ token[4] >= t

\* C1: a Login for a user whose confirmed flag is false never returns a
\* token pair and never writes a refresh token to that user's record,
\* whatever password is supplied.
C1_UnconfirmedLoginDenied ==
    resp.op = "login" =>
        \A i \in RowsOf(Before, resp.email) :
            ~Before[i].confirmed =>
                /\ resp.status # 200
                /\ resp.tokens = None
                /\ users[i].refresh_token = Before[i].refresh_token
                /\ users[i].refresh_token = None

C1_Witness ==
    /\ resp.op = "login"
    /\ resp.password = "12345678"
    /\ \E i \in RowsOf(Before, resp.email) :
          ~Before[i].confirmed /\ CorrectPassword(Before[i], resp.password)
    /\ resp.status = 401

\* C2: after two successive RefreshAccessToken calls that present the same
\* refresh token, the first of which succeeded, the second fails with
\* TokenMismatch.
C2_RefreshTokenSingleUse ==
    resp.replay => resp.status = 401 /\ resp.detail = "Invalid refresh token"

\* C4: a successful Login stores the newly issued refresh token, and every
\* refresh token issued to that user before the Login is rejected by any
\* later RefreshAccessToken call.
C4_LoginInvalidatesEarlierTokens ==
    /\ (resp.op = "login" /\ resp.status = 200) =>
          \A i \in RowsOf(Before, resp.email) :
              users[i].refresh_token = resp.tokens[2]
    /\ (resp.op = "refresh_token" /\ resp.token \in revoked) => resp.status # 200

\* C5: a RefreshAccessToken call with a valid refresh token that differs
\* from the value on file fails with TokenMismatch and nulls the stored
\* token; while the stored token is null every RefreshAccessToken call for
\* that user fails, and only a successful Login makes it non-null again.
C5_MismatchClearsSession ==
    /\ (resp.op = "refresh_token" /\ ValidAt(resp.token, "refresh_token", resp.at)) =>
          \A i \in RowsOf(Before, resp.token[1]) :
              /\ Before[i].refresh_token # resp.token =>
                    /\ resp.status = 401
                    /\ resp.detail = "Invalid refresh token"
                    /\ users[i].refresh_token = None
              /\ Before[i].refresh_token = None => resp.status = 401
    /\ \A i \in 1..Len(Before) :
          (Before[i].refresh_token = None /\ users[i].refresh_token # None) =>
              /\ resp.op = "login"
              /\ resp.status = 200
              /\ resp.email = users[i].email

C5_Witness ==
    /\ resp.op = "refresh_token"
    /\ ValidAt(resp.token, "refresh_token", resp.at)
    /\ resp.token \in issued
    /\ \E i \in RowsOf(Before, resp.token[1]) : Before[i].refresh_token = None
    /\ resp.status = 401
    /\ resp.detail = "Invalid refresh token"

\* C6: after a Signup with a fresh email the user is unconfirmed and a Login
\* with the correct credentials fails with EmailNotConfirmed; ConfirmEmail
\* with the dispatched, unexpired verification token sets the confirmed
\* flag, and a Login with the correct credentials for a confirmed user
\* returns an access token, a refresh token and the token-type marker.
C6_SignupConfirmLogin ==
    /\ (resp.op = "signup" /\ RowsOf(Before, resp.email) = {}) =>
          /\ resp.status = 201
          /\ \E i \in RowsOf(users, resp.email) : ~users[i].confirmed
    /\ resp.op = "login" =>
          \A i \in RowsOf(Before, resp.email) :
              CorrectPassword(Before[i], resp.password) =>
                  IF ~Before[i].confirmed
                  THEN resp.status = 401 /\ resp.detail = "Email not confirmed"
                  ELSE /\ resp.status = 200
                       /\ Len(resp.tokens) = 3
                       /\ resp.tokens[1] = <<users[i].email, "access_token",
                                             resp.at, resp.at + AccessTTL>>
                       /\ resp.tokens[2] = <<users[i].email, "refresh_token",
                                             resp.at, resp.at + RefreshTTL>>
                       /\ resp.tokens[3] = "bearer"
    /\ (resp.op = "confirmed_email" /\ resp.token \in issued
            /\ ValidAt(resp.token, "email_token", resp.at)) =>
          /\ resp.status = 200
          /\ \A i \in RowsOf(users, resp.token[1]) : users[i].confirmed

C6_Witness ==
    /\ resp.op = "login"
    /\ resp.status = 200
    /\ Len(resp.tokens) = 3
    /\ \E i \in RowsOf(Before, resp.email) :
          Before[i].confirmed /\ CorrectPassword(Before[i], resp.password)

\* C7: Login fails with InvalidEmail when no user has the email, otherwise
\* with EmailNotConfirmed when the user is unconfirmed (even if the password
\* is wrong), otherwise with InvalidPassword when the password does not
\* verify, and succeeds otherwise.
C7_LoginFailureOrder ==
    resp.op = "login" =>
        IF RowsOf(Before, resp.email) = {}
        THEN resp.status = 401 /\ resp.detail = "Invalid email"
        ELSE \A i \in RowsOf(Before, resp.email) :
                IF ~Before[i].confirmed
                THEN resp.status = 401 /\ resp.detail = "Email not confirmed"
                ELSE IF ~CorrectPassword(Before[i], resp.password)
                THEN resp.status = 401 /\ resp.detail = "Invalid password"
                ELSE resp.status = 200 /\ resp.detail = ""

C7_Witness ==
    /\ resp.op = "login"
    /\ resp.detail = "Email not confirmed"
    /\ \E i \in RowsOf(Before, resp.email) :
          ~Before[i].confirmed /\ ~CorrectPassword(Before[i], resp.password)

\* C8: a Signup with an email already in the users table fails with 409
\* Account already exists, creates no row, changes no row and queues no
\* verification email.
C8_SignupExistingEmail ==
    (resp.op = "signup" /\ RowsOf(Before, resp.email) # {}) =>
        /\ resp.status = 409
        /\ resp.detail = "Account already exists"
        /\ users = Before
        /\ resp.tasks = <<>>
        /\ resp.user = None

C8_Witness ==
    /\ resp.op = "signup"
    /\ RowsOf(Before, resp.email) # {}
    /\ resp.status = 409

\* C10 as stated: lookup by email ignores letter case, so a Signup whose
\* email differs only in case from an existing user's fails with
\* AccountExists and a Login with such an email addresses that user.
C10_CaseInsensitiveLookup ==
    LET folded == {i \in 1..Len(Before) : Lower(Before[i].email) = Lower(resp.email)}
    IN  /\ (resp.op = "signup" /\ folded # {}) => resp.status = 409
        /\ (resp.op = "login" /\ folded # {}) => resp.detail # "Invalid email"

\* C10 as amended: lookup by email is by exact match.  A Signup fails with
\* AccountExists exactly when a user has this very email; with an email that
\* differs in letter case from every existing one it creates a separate
\* user.  A Login addresses the user with this very email and fails with
\* InvalidEmail when there is none, whatever other spellings exist.
C10_ExactLookup ==
    /\ resp.op = "signup" =>
          IF RowsOf(Before, resp.email) # {}
          THEN resp.status = 409
          ELSE /\ resp.status = 201
               /\ Len(users) = Len(Before) + 1
               /\ users[Len(users)].email = resp.email
    /\ resp.op = "login" =>
          /\ RowsOf(Before, resp.email) = {} <=> resp.detail = "Invalid email"
          /\ resp.status = 200 => resp.tokens[2][1] = resp.email

C10_Witness ==
    /\ resp.op = "signup"
    /\ resp.status = 201
    /\ \E i \in 1..Len(Before) :
          Before[i].email # resp.email /\ Lower(Before[i].email) = Lower(resp.email)

\* C3: when two RefreshAccessToken requests that present the same stored
\* refresh token run concurrently, at most one of them returns a new token
\* pair.
C3_RotationAtomic ==
    \A r1, r2 \in 1..MaxReqs :
        ( /\ r1 # r2
          /\ reqs[r1].pc = "done" /\ reqs[r2].pc = "done"
          /\ reqs[r1].op = "refresh_token" /\ reqs[r2].op = "refresh_token"
          /\ reqs[r1].token = reqs[r2].token
          /\ reqs[r1].seen = reqs[r1].token /\ reqs[r2].seen = reqs[r2].token
          /\ reqs[r1].conc /\ reqs[r2].conc )
        => ~( /\ reqs[r1].status = 200 /\ reqs[r1].rt # reqs[r1].token
              /\ reqs[r2].status = 200 /\ reqs[r2].rt # reqs[r2].token )

\* C9: the users table never holds two rows with the same email, also when
\* the existence check of one Signup runs before the insert of another.
C9_EmailsUnique ==
    \A i, j \in 1..Len(users) : users[i].email = users[j].email => i = j

C9_Witness ==
    \E r \in 1..MaxReqs :
        /\ reqs[r].pc = "done"
        /\ reqs[r].op = "signup"
        /\ reqs[r].status = 500
        /\ reqs[r].detail = "IntegrityError"
        /\ Cardinality(RowsOf(users, reqs[r].email)) = 1

C12_ConfirmedMonotone ==
    /\ Len(users) >= Len(Before)
    /\ \A i \in 1..Len(users) :
          IF i > Len(Before)
          THEN resp.op = "signup" /\ ~users[i].confirmed
          ELSE /\ users[i].email = Before[i].email
               /\ Before[i].confirmed => users[i].confirmed
               /\ (~Before[i].confirmed /\ users[i].confirmed) =>
                     /\ resp.op = "confirmed_email"
                     /\ resp.token \in issued
                     /\ ValidAt(resp.token, "email_token", resp.at)
                     /\ resp.token[1] = users[i].email

\* A ConfirmEmail that turns the flag of one user while another user stays
\* unconfirmed.
C12_Witness ==
    /\ resp.op = "confirmed_email"
    /\ \E i, j \in 1..Len(Before) :
          /\ ~Before[i].confirmed /\ users[i].confirmed
          /\ ~Before[j].confirmed /\ ~users[j].confirmed

\* C13: ConfirmEmail with a token that does not verify or has expired fails
\* with 400 InvalidToken; with an unexpired verification token whose subject
\* is the email of no user it fails with 400 Verification error
\* (UserNotFound); a ConfirmEmail that fails leaves every row, and so every
\* confirmed flag and stored refresh token, as it was.
C13_ConfirmEmailFailures ==
    resp.op = "confirmed_email" =>
        /\ (Len(resp.token) # 4 \/ resp.token[4] < resp.at) =>
              resp.status = 400 /\ resp.detail = "InvalidToken"
        /\ ( /\ ValidAt(resp.token, "email_token", resp.at)
             /\ RowsOf(Before, resp.token[1]) = {} ) =>
              resp.status = 400 /\ resp.detail = "Verification error"
        /\ resp.status # 200 =>
              /\ Len(users) = Len(Before)
              /\ \A i \in 1..Len(users) :
                    /\ users[i].confirmed = Before[i].confirmed
                    /\ users[i].refresh_token = Before[i].refresh_token

\* A valid verification token for an email that no row has, presented
\* while another user waits for confirmation.
C13_Witness ==
    /\ resp.op = "confirmed_email"
    /\ ValidAt(resp.token, "email_token", resp.at)
    /\ RowsOf(Before, resp.token[1]) = {}
    /\ resp.detail = "Verification error"
    /\ \E i \in 1..Len(users) : ~users[i].confirmed

C15_SignupBackgroundMail ==
    /\ [](resp.op = "signup" /\ resp.status \in {0, 201} =>
            /\ Len(users) = Len(Before) + 1
            /\ users[Len(users)].email = resp.email
            /\ ~users[Len(users)].confirmed
            /\ Len(resp.tasks) = 1
            /\ resp.tasks[1][1] = resp.email)
    /\ [][(resp' # resp /\ resp'.op = "signup" /\ resp'.status \in {0, 201}) =>
            /\ mailq' = mailq \o resp'.tasks
            /\ issued' = issued]_vars
    /\ [][/\ Len(users') >= Len(users)
          /\ \A i \in 1..Len(users) : users'[i] = users[i]]_vars
    /\ ([]<><<SendEmail \/ SendEmailFails>>_vars) \/ <>[](mailq = <<>>)

\* The delivery queued by a Signup has failed and the user is still stored.
C15_Witness ==
    /\ resp.op = "signup"
    /\ resp.status = 201
    /\ mailq = <<>>
    /\ issued = {}
    /\ \E i \in RowsOf(users, resp.email) : ~users[i].confirmed

\* C16: the row that a Signup stores holds the hash of the password (what
\* get_password_hash returns, which verifies against this password and no
\* other) in place of the password, and the
\* response of the Signup carries the username, the email and the avatar of
\* that row and no password or hash field.
C16_PasswordNeverReturned ==
    (resp.op = "signup" /\ resp.status = 201) =>
        LET row == users[Len(users)]
        IN  /\ row.email = resp.email
            /\ row.password = get_password_hash(resp.password)
            /\ verify_password(resp.password, row.password)
            /\ \A p \in Passwords \ {resp.password} : ~verify_password(p, row.password)
            /\ DOMAIN resp.user = {"username", "email", "avatar"}
            /\ resp.user.username = row.username
            /\ resp.user.email = row.email
            /\ resp.user.avatar = row.avatar

C16_Witness ==
    /\ resp.op = "signup"
    /\ resp.status = 201
    /\ resp.password = "12345678"
    /\ Len(users) = Len(Before) + 1
    /\ users[Len(users)].password = <<"hash", "12345678">>
    /\ "password" \notin DOMAIN resp.user

(***************************************************************************)
(* Properties of the rate limiter.  A step is a request when it flips      *)
(* call.seq; it is the passing of time when it leaves call and redis_up    *)
(* alone.                                                                  *)
(***************************************************************************)
\* An open window loses the time that passes, and is reset to a count of
\* zero once the time since it opened has exceeded its length.
WindowsElapse ==
    (call' = call /\ redis_up' = redis_up) =>
        \A k \in DOMAIN limiter :
            IF limiter[k].count > 0 /\ limiter[k].ttl >= ClockStep
            THEN limiter'[k] = [limiter[k] EXCEPT !.ttl = @ - ClockStep]
            ELSE limiter'[k] = NoWindow

\* C17: for a route configured (n, w) and a fixed identity, a window of
\* length w opens with the first admitted request; the requests of that
\* identity on that route are admitted while fewer than n have been admitted
\* in the open window, so that exactly n are admitted in it; the next one is
\* denied with 429; once the window has elapsed the next request is
\* admitted again and opens a new window.
C17_WindowQuota ==
    /\ [](\A k \in DOMAIN limiter :
            /\ limiter[k].count <= RateLimits[k[2]].times
            /\ limiter[k].ttl >= 0
            /\ limiter[k].ttl <= RateLimits[k[2]].seconds)
    /\ [][(call'.seq # call.seq /\ redis_up) =>
            LET key == <<call'.identity, call'.route>>
                w == limiter[key]
                lim == RateLimits[call'.route]
            IN  IF w.count = 0
                THEN /\ call'.admitted
                     /\ limiter'[key] = [count |-> 1, ttl |-> lim.seconds]
                ELSE IF w.count < lim.times
                THEN /\ call'.admitted
                     /\ limiter'[key] = [count |-> w.count + 1, ttl |-> w.ttl]
                ELSE /\ ~call'.admitted
                     /\ call'.status = 429
                     /\ limiter'[key] = w]_vars
    /\ [][WindowsElapse]_vars

\* The request after the n-th admitted one of a window of update_contact.
C17_Witness ==
    /\ call.route = "update_contact"
    /\ call.status = 429
    /\ ~call.admitted
    /\ limiter[<<call.identity, call.route>>].count = RateLimits[call.route].times
    /\ limiter[<<call.identity, call.route>>].ttl < RateLimits[call.route].seconds

\* C18: the counters are keyed by (identity, route).  A request changes no
\* window but that of its own identity and route, so it takes nothing from
\* the admissions left to any other pair; and the counter of a window is
\* reset to zero once the window has elapsed.
C18_CountersPerKey ==
    /\ [][call'.seq # call.seq =>
            \A k \in DOMAIN limiter :
                k # <<call'.identity, call'.route>> => limiter'[k] = limiter[k]]_vars
    /\ [][WindowsElapse]_vars
    /\ [](\A k \in DOMAIN limiter : limiter[k].count = 0 => limiter[k] = NoWindow)

\* ip2 is admitted on delete_contact while ip1 has used up delete_contact
\* and ip2 has used up update_contact.
C18_Witness ==
    /\ call.identity = "ip2"
    /\ call.route = "delete_contact"
    /\ call.admitted
    /\ limiter[<<"ip1", "delete_contact">>].count = RateLimits.delete_contact.times
    /\ limiter[<<"ip2", "update_contact">>].count = RateLimits.update_contact.times
    /\ limiter[<<"ip2", "delete_contact">>] =
          [count |-> 1, ttl |-> RateLimits.delete_contact.seconds]

\* C19: the limiter fails closed.  A request that arrives while the backing
\* store does not answer is rejected with a server error, the rest of the
\* route does not run and no counter moves; the rest of a route runs only
\* for a request whose admission check was completed and admitted it.
C19_FailClosed ==
    /\ [][call'.seq # call.seq =>
            /\ ~redis_up =>
                  /\ call'.status = 500
                  /\ ~call'.admitted
                  /\ ~call'.ran
                  /\ limiter' = limiter
            /\ call'.ran => (redis_up /\ call'.admitted)]_vars
    /\ [](call.ran => (call.admitted /\ call.status \notin {429, 500}))

\* A request rejected while the store is down and a window of its key is
\* open with admissions left.
C19_Witness ==
    /\ ~redis_up
    /\ call.status = 500
    /\ ~call.ran
    /\ call.route = "update_contact"
    /\ limiter[<<call.identity, call.route>>].count = 1

(***************************************************************************)
(* C20: contacts are isolated per owner.  Every contact that a list, get,  *)
(* search or birthday query of a user returns is owned by that user, and   *)
(* an update, patch or delete of a user leaves every contact of another    *)
(* user in the table as it was; no request changes the owner of a contact, *)
(* so the owner of a contact is the user that created it.                  *)
(***************************************************************************)
ContactReads == {"get_contacts", "get_contact", "search_contacts",
                 "get_birthday_contacts"}
ContactWrites == {"update_contact", "update_status_contact", "delete_contact"}

C20_ContactsIsolated ==
    /\ cres.op \in ContactReads =>
          \A i \in 1..Len(cres.result) :
              /\ cres.result[i].user = cres.user
              /\ cres.result[i] \in contacts.rows
    /\ cres.op \in ContactWrites =>
          \A r \in cres.before.rows : r.user # cres.user => r \in contacts.rows
    /\ cres.op = "create_contact" =>
          /\ cres.result[1].user = cres.user
          /\ cres.result[1].id \notin {r.id : r \in cres.before.rows}
    /\ \A r \in contacts.rows, q \in cres.before.rows :
          r.id = q.id => r.user = q.user

\* A delete by a user that owns a contact, aimed at a contact of another
\* user: nothing is returned and the other user's contact is still there.
C20_Witness ==
    /\ cres.op = "delete_contact"
    /\ cres.result = <<>>
    /\ \E mine \in contacts.rows : mine.user = cres.user
    /\ \E theirs \in contacts.rows : theirs.id = cres.id /\ theirs.user # cres.user

C22_KindsNotInterchangeable ==
    /\ ( /\ resp.op = "refresh_token"
         /\ Len(resp.token) = 4
         /\ resp.token[2] = "access_token" ) =>
          /\ resp.status = 401
          /\ resp.tokens = None
          /\ users = Before
          /\ resp.token[4] >= resp.at => resp.detail = "WrongTokenKind"
    /\ ( /\ call.route = "get_contact"
         /\ call.admitted
         /\ Len(call.token) = 4
         /\ call.token[2] = "refresh_token" ) =>
          /\ call.status = 401
          /\ ~call.ran
          /\ call.token[4] >= now => call.detail = "WrongTokenKind"

\* The unexpired access token of a user with a session has been presented
\* to refresh_token, and the unexpired refresh token that the user has on
\* file to a protected route.
C22_Witness ==
    /\ resp.op = "refresh_token"
    /\ ValidAt(resp.token, "access_token", resp.at)
    /\ \E i \in RowsOf(Before, resp.token[1]) : Before[i].refresh_token # None
    /\ call.route = "get_contact"
    /\ call.admitted
    /\ ValidAt(call.token, "refresh_token", now)
    /\ \E i \in RowsOf(users, call.token[1]) : users[i].refresh_token = call.token

NextOccurrence(birthday, today) ==
    LET years == {y \in today[1]..(today[1] + 8) :
                     /\ birthday[3] <= DaysInMonth(y, birthday[2])
                     /\ Ordinal(<<y, birthday[2], birthday[3]>>) >= Ordinal(today)}
        year == CHOOSE y \in years : \A z \in years : y <= z
    IN  Ordinal(<<year, birthday[2], birthday[3]>>)

C24_BirthdayQuery ==
    cres.op = "get_birthday_contacts" =>
        /\ cres.status = 200
        /\ \A r \in cres.before.rows :
              (\E i \in 1..Len(cres.result) : cres.result[i] = r) <=>
                  /\ r.user = cres.user
                  /\ NextOccurrence(r.birthday, cres.today)
                        <= Ordinal(cres.today) + cres.days

(***************************************************************************)
(* C25: a PUT that finds the contact overwrites name, lastname, email,     *)
(* phone, birthday, notes and favourite from the request body; a PATCH     *)
(* that finds it changes the favourite flag alone.  Both leave the id and  *)
(* the owner of the contact, and every other contact, as they were.        *)
(***************************************************************************)
C25_PutReplacesPatchFlags ==
    /\ (cres.op = "update_contact" /\ cres.status = 200) =>
          \E old \in cres.before.rows :
              LET new == [id |-> old.id, user |-> old.user,
                          name |-> cres.body.name, lastname |-> cres.body.lastname,
                          email |-> cres.body.email, phone |-> cres.body.phone,
                          birthday |-> cres.body.birthday,
                          notes |-> cres.body.notes,
                          favourite |-> cres.body.favourite]
              IN  /\ old.id = cres.id
                  /\ contacts.rows = (cres.before.rows \ {old}) \cup {new}
                  /\ contacts.last_id = cres.before.last_id
                  /\ cres.result = <<new>>
    /\ (cres.op = "update_status_contact" /\ cres.status = 200) =>
          \E old \in cres.before.rows :
              LET new == [old EXCEPT !.favourite = cres.favourite]
              IN  /\ old.id = cres.id
                  /\ contacts.rows = (cres.before.rows \ {old}) \cup {new}
                  /\ contacts.last_id = cres.before.last_id
                  /\ cres.result = <<new>>

\* A PUT on one of two contacts with a body that differs from the contact
\* in its name, its notes and its favourite flag.
C25_Witness ==
    /\ cres.op = "update_contact"
    /\ cres.status = 200
    /\ Cardinality(contacts.rows) = 2
    /\ \E old \in cres.before.rows :
          /\ old.id = cres.id
          /\ old.name # cres.body.name
          /\ old.notes # cres.body.notes
          /\ old.favourite # cres.body.favourite

(***************************************************************************)
(* C26: GET, PUT and PATCH on /contacts/{id} with an id that names no      *)
(* contact of the current user, because no contact has the id or because   *)
(* the contact is owned by another user, answer 404 and leave the          *)
(* contacts table as it was.                                               *)
(***************************************************************************)
C26_NotFound ==
    ( /\ cres.op \in {"get_contact", "update_contact", "update_status_contact"}
      /\ ~\E r \in cres.before.rows : r.id = cres.id /\ r.user = cres.user ) =>
        /\ cres.status = 404
        /\ cres.detail \in {"NOT FOUND", "Note not found"}
        /\ cres.result = <<>>
        /\ contacts = cres.before

\* A PUT by a user on the id of a contact that another user owns.
C26_Witness ==
    /\ cres.op = "update_contact"
    /\ cres.status = 404
    /\ \E r \in contacts.rows :
          /\ r.id = cres.id
          /\ r.user # cres.user
          /\ r.name # cres.body.name

(***************************************************************************)
(* C27: the state of a user is Unconfirmed, Confirmed-NoSession or         *)
(* Confirmed-HasSession: a user with a refresh token on file is confirmed. *)
(* A user starts Unconfirmed, and a request moves a user from Unconfirmed  *)
(* to Confirmed-NoSession and between Confirmed-NoSession and              *)
(* Confirmed-HasSession only.                                              *)
(***************************************************************************)
StateOf(row) ==
    IF row.refresh_token # None
    THEN (IF row.confirmed THEN "Confirmed-HasSession" ELSE "Unconfirmed-HasSession")
    ELSE (IF row.confirmed THEN "Confirmed-NoSession" ELSE "Unconfirmed")

Moves ==
    {<<"Unconfirmed", "Confirmed-NoSession">>,
     <<"Confirmed-NoSession", "Confirmed-HasSession">>,
     <<"Confirmed-HasSession", "Confirmed-NoSession">>}

C27_UserStateMachine ==
    /\ \A i \in 1..Len(users) : users[i].refresh_token # None => users[i].confirmed
    /\ resp.op # "none" =>
          /\ Len(users) >= Len(Before)
          /\ \A i \in 1..Len(users) :
                IF i <= Len(Before)
                THEN \/ StateOf(users[i]) = StateOf(Before[i])
                     \/ <<StateOf(Before[i]), StateOf(users[i])>> \in Moves
                ELSE StateOf(users[i]) = "Unconfirmed"

\* A refresh that has taken a user from Confirmed-HasSession back to
\* Confirmed-NoSession while another user is still Unconfirmed.
C27_Witness ==
    /\ resp.op = "refresh_token"
    /\ \E i \in 1..Len(Before) :
          /\ StateOf(Before[i]) = "Confirmed-HasSession"
          /\ StateOf(users[i]) = "Confirmed-NoSession"
    /\ \E j \in 1..Len(users) : StateOf(users[j]) = "Unconfirmed"

(***************************************************************************)
(* C28: on a rate-limited route the admission check runs before the access *)
(* token is validated.  A request that finds the quota of its key used up  *)
(* is rejected with 429, whatever its bearer token, and neither the guard  *)
(* nor the handler decides its response; a request that is admitted and    *)
(* then fails the validation of its token has taken one unit of the quota. *)
(***************************************************************************)
C28_LimiterBeforeGuard ==
    [][call'.seq # call.seq =>
          LET key == <<call'.identity, call'.route>>
          IN  /\ limiter[key].count >= RateLimits[call'.route].times =>
                    /\ call'.status = 429
                    /\ ~call'.admitted
                    /\ ~call'.ran
                    /\ limiter' = limiter
              /\ (call'.admitted /\ ~call'.ran) =>
                    /\ call'.status = 401
                    /\ limiter'[key].count = limiter[key].count + 1]_vars

\* The third request to /users/myself within the window, with bytes that
\* do not verify as its token: it is answered 429, not 401.
C28_Witness ==
    /\ call.route = "get_current_user"
    /\ call.token = Garbage
    /\ call.status = 429
    /\ limiter[<<call.identity, call.route>>].count =
          RateLimits["get_current_user"].times

(***************************************************************************)
(* C29: a request that the rate limiter denies is answered 429 (Too Many   *)
(* Requests), and neither the guard nor the handler runs for it: the       *)
(* contacts and the users are as they were before the request.             *)
(***************************************************************************)
C29_DeniedLeavesStores ==
    (call.route # "" /\ redis_up /\ ~call.admitted) =>
        /\ call.status = 429
        /\ call.detail = "Too Many Requests"
        /\ ~call.ran
        /\ cres.op = "none"
        /\ contacts = cres.before
        /\ users = call.before

\* A DELETE beyond the quota that carries the valid access token of the
\* user, whose contact is in the table.
C29_Witness ==
    /\ call.route = "delete_contact"
    /\ call.status = 429
    /\ ValidAt(call.token, "access_token", now)
    /\ \E i \in RowsOf(users, call.token[1]) :
          \E r \in contacts.rows : r.user = i

(***************************************************************************)
(* C30: a refresh_token call ends in a new token pair or in one of the     *)
(* failures InvalidToken, WrongTokenKind and TokenMismatch (Invalid        *)
(* refresh token), all 401.  The subject of every token that a client can  *)
(* present and that decodes as a refresh token is the email of a user, so  *)
(* the handler always finds the user whose stored token it compares.       *)
(***************************************************************************)
C30_RefreshTypedOutcomes ==
    /\ \A tok \in Presentable :
          ValidAt(tok, "refresh_token", now) => RowsOf(users, tok[1]) # {}
    /\ resp.op = "refresh_token" =>
          /\ \/ resp.status = 200 /\ resp.tokens # None
             \/ /\ resp.status = 401
                /\ resp.tokens = None
                /\ resp.detail \in {"InvalidToken", "WrongTokenKind",
                                    "Invalid refresh token"}
          /\ ValidAt(resp.token, "refresh_token", resp.at) =>
                /\ RowsOf(Before, resp.token[1]) # {}
                /\ resp.detail \in {"", "Invalid refresh token"}

\* A refresh whose token decodes, with two users in the table: the token
\* pair is returned.
C30_Witness ==
    /\ resp.op = "refresh_token"
    /\ ValidAt(resp.token, "refresh_token", resp.at)
    /\ Len(Before) = 2
    /\ resp.status = 200
    /\ resp.tokens # None

(***************************************************************************)
(* C31: a login that fails, with Invalid email, Email not confirmed or     *)
(* Invalid password, leaves the stored refresh token and the confirmed     *)
(* flag of every user as they were: a refresh token that the refresh route *)
(* accepted before the failed login is accepted after it.                  *)
(***************************************************************************)
C31_FailedLoginFrame ==
    (resp.op = "login" /\ resp.status # 200) =>
        /\ resp.status = 401
        /\ resp.detail \in {"Invalid email", "Email not confirmed", "Invalid password"}
        /\ resp.tokens = None
        /\ Len(users) = Len(Before)
        /\ \A i \in 1..Len(Before) :
              /\ users[i].refresh_token = Before[i].refresh_token
              /\ users[i].confirmed = Before[i].confirmed
        /\ \A i \in 1..Len(Before) :
              RefreshOut(Before, Before[i].refresh_token, resp.at).resp.status = 200
                 => RefreshOut(users, Before[i].refresh_token, resp.at).resp.status = 200

\* A login with a wrong password against an account whose stored refresh
\* token is still good: the token stays stored and the refresh route
\* takes it.
C31_Witness ==
    /\ resp.op = "login"
    /\ resp.detail = "Invalid password"
    /\ \E i \in RowsOf(Before, resp.email) :
          /\ ValidAt(Before[i].refresh_token, "refresh_token", resp.at)
          /\ users[i].refresh_token = Before[i].refresh_token
          /\ RefreshOut(users, users[i].refresh_token, resp.at).resp.status = 200

(***************************************************************************)
(* C32: DELETE /contacts/{id} answers 204 and removes the contact with     *)
(* that id that the current user owns, and no other contact.  When the     *)
(* user owns no contact with the id the contacts table is left as it was,  *)
(* and so a second delete of the same id by the same user changes nothing. *)
(***************************************************************************)
C32_DeleteExactlyOne ==
    cres.op = "delete_contact" =>
        LET target == {r \in cres.before.rows :
                          r.id = cres.id /\ r.user = cres.user}
        IN  /\ cres.status = 204
            /\ Cardinality(target) <= 1
            /\ contacts.rows = cres.before.rows \ target
            /\ contacts.last_id = cres.before.last_id
            /\ target = {} => contacts = cres.before
            /\ repo_delete_contact(contacts, cres.id, cres.user).tbl = contacts

\* A delete that removed the contact of its user while the table held a
\* contact of another user, which is still there.
C32_Witness ==
    /\ cres.op = "delete_contact"
    /\ Cardinality(cres.before.rows) = 2
    /\ Cardinality(contacts.rows) = 1
    /\ \A r \in contacts.rows : r.user # cres.user /\ r.id # cres.id
    /\ \E r \in cres.before.rows : r.id = cres.id /\ r.user = cres.user

====
